---- MODULE Spec2Model ----
(***************************************************************************)
(* The argument pipes of honestjs/pipes: PrimitiveValidationPipe (the      *)
(* primitive coercion stage) and ClassValidationPipe / ClassValidatorPipe  *)
(* (the structured validation stage; the two classes have the same body).  *)
(*                                                                         *)
(* A JavaScript string is a sequence of one-character strings; the text    *)
(* the code builds from literals and template strings is the concatenation *)
(* of such sequences, where a literal part of a template is kept as one    *)
(* element ("Cannot convert '", "; ", a property name).                    *)
(***************************************************************************)
EXTENDS Integers, Sequences, FiniteSets, TLC

(***************************************************************************)
(* Bounds of the model.                                                    *)
(***************************************************************************)
\* longest text enumerated exhaustively over Alphabet
MaxLen == 3

(***************************************************************************)
(* JavaScript strings.                                                     *)
(***************************************************************************)
WhiteSpace == {" ", "\t"}

DecimalDigits == <<"0", "1", "2", "3", "4", "5", "6", "7", "8", "9">>

UpperCase == <<"A", "B", "C", "D", "E", "F", "G", "H", "I", "J", "K", "L", "M",
               "N", "O", "P", "Q", "R", "S", "T", "U", "V", "W", "X", "Y", "Z">>

LowerCase == <<"a", "b", "c", "d", "e", "f", "g", "h", "i", "j", "k", "l", "m",
               "n", "o", "p", "q", "r", "s", "t", "u", "v", "w", "x", "y", "z">>

Range(s) == {s[i] : i \in 1..Len(s)}

\* String.prototype.trim
RECURSIVE trimStart(_)
trimStart(s) ==
    IF Len(s) > 0 /\ Head(s) \in WhiteSpace THEN trimStart(Tail(s)) ELSE s

RECURSIVE trimEnd(_)
trimEnd(s) ==
    IF Len(s) > 0 /\ s[Len(s)] \in WhiteSpace
    THEN trimEnd(SubSeq(s, 1, Len(s) - 1))
    ELSE s

trim(s) == trimEnd(trimStart(s))

\* String.prototype.toLowerCase
LowerChar(c) ==
    IF c \in Range(UpperCase)
    THEN LowerCase[CHOOSE i \in 1..Len(UpperCase) : UpperCase[i] = c]
    ELSE c

RECURSIVE toLowerCase(_)
toLowerCase(s) ==
    IF Len(s) = 0 THEN <<>> ELSE <<LowerChar(Head(s))>> \o toLowerCase(Tail(s))

\* Array.prototype.join on an array of strings
RECURSIVE join(_, _)
join(parts, sep) ==
    IF Len(parts) = 0 THEN <<>>
    ELSE IF Len(parts) = 1 THEN parts[1]
    ELSE parts[1] \o sep \o join(Tail(parts), sep)

(***************************************************************************)
(* JavaScript numbers.  A finite number is (-1)^neg * m / 10^sc with m not *)
(* divisible by 10 unless sc = 0, so equal numbers are equal records; the  *)
(* sign of zero is kept.  Within the lengths of text the model draws, a    *)
(* decimal literal and the double it denotes determine each other.         *)
(***************************************************************************)
RECURSIVE Pow(_, _)
Pow(b, e) == IF e = 0 THEN 1 ELSE b * Pow(b, e - 1)

RECURSIVE Normal(_, _, _)
Normal(neg, m, sc) ==
    IF sc > 0 /\ m % 10 = 0 THEN Normal(neg, m \div 10, sc - 1)
    ELSE [cls |-> "fin", neg |-> neg, m |-> m, sc |-> sc]

Finite(neg, m, sc) ==
    IF sc < 0 THEN Normal(neg, m * Pow(10, 0 - sc), 0) ELSE Normal(neg, m, sc)

NaN == [cls |-> "nan", neg |-> FALSE, m |-> 0, sc |-> 0]

Infinite(neg) == [cls |-> "inf", neg |-> neg, m |-> 0, sc |-> 0]

Int2Num(i) == IF i < 0 THEN Finite(TRUE, 0 - i, 0) ELSE Finite(FALSE, i, 0)

isNaN(n) == n.cls = "nan"

IsZero(n) == n.cls = "fin" /\ n.m = 0

\* the value of a digit in a radix up to 16
DigitValue(c) ==
    IF c \in Range(DecimalDigits)
    THEN (CHOOSE i \in 1..10 : DecimalDigits[i] = c) - 1
    ELSE 9 + (CHOOSE i \in 1..6 : LowerCase[i] = LowerChar(c))

IsDigitOf(c, radix) ==
    /\ c \in Range(DecimalDigits) \cup {LowerCase[i] : i \in 1..6}
                                  \cup {UpperCase[i] : i \in 1..6}
    /\ DigitValue(c) < radix

AllDigits(s, radix) == \A i \in 1..Len(s) : IsDigitOf(s[i], radix)

RECURSIVE DigitsValue(_, _, _)
DigitsValue(s, radix, acc) ==
    IF Len(s) = 0 THEN acc
    ELSE DigitsValue(Tail(s), radix, acc * radix + DigitValue(Head(s)))

IndexOf(s, chars) ==
    IF \E i \in 1..Len(s) : s[i] \in chars
    THEN CHOOSE i \in 1..Len(s) : s[i] \in chars /\ \A j \in 1..(i - 1) : s[j] \notin chars
    ELSE 0

\* ExponentPart without its e: an optional sign and one or more digits
IsExponent(s) ==
    LET d == IF Len(s) > 0 /\ Head(s) \in {"+", "-"} THEN Tail(s) ELSE s
    IN  Len(d) > 0 /\ AllDigits(d, 10)

ExponentValue(s) ==
    LET d == IF Len(s) > 0 /\ Head(s) \in {"+", "-"} THEN Tail(s) ELSE s
        v == DigitsValue(d, 10, 0)
    IN  IF Len(s) > 0 /\ Head(s) = "-" THEN 0 - v ELSE v

\* StrUnsignedDecimalLiteral, with the sign it was written after
UnsignedDecimal(s, neg) ==
    LET e    == IndexOf(s, {"e", "E"})
        mant == IF e = 0 THEN s ELSE SubSeq(s, 1, e - 1)
        expo == IF e = 0 THEN <<>> ELSE SubSeq(s, e + 1, Len(s))
        d    == IndexOf(mant, {"."})
        ip   == IF d = 0 THEN mant ELSE SubSeq(mant, 1, d - 1)
        fp   == IF d = 0 THEN <<>> ELSE SubSeq(mant, d + 1, Len(mant))
        okM  == /\ AllDigits(ip, 10) /\ AllDigits(fp, 10)
                /\ Len(ip) + Len(fp) > 0
        okE  == e = 0 \/ IsExponent(expo)
    IN  IF s = <<"I", "n", "f", "i", "n", "i", "t", "y">> THEN Infinite(neg)
        ELSE IF okM /\ okE
             THEN Finite(neg, DigitsValue(ip \o fp, 10, 0),
                         Len(fp) - (IF e = 0 THEN 0 ELSE ExponentValue(expo)))
             ELSE NaN

\* NonDecimalIntegerLiteral: 0x, 0o, 0b and digits of that radix, unsigned
RadixOf(s) ==
    IF Len(s) < 3 \/ s[1] # "0" THEN 0
    ELSE IF s[2] \in {"x", "X"} THEN 16
    ELSE IF s[2] \in {"o", "O"} THEN 8
    ELSE IF s[2] \in {"b", "B"} THEN 2
    ELSE 0

\* Number(string): StringToNumber of ECMA-262
StringToNumber(str) ==
    LET s == trim(str)
    IN  IF Len(s) = 0 THEN Finite(FALSE, 0, 0)
        ELSE IF RadixOf(s) # 0
             THEN IF AllDigits(SubSeq(s, 3, Len(s)), RadixOf(s))
                  THEN Finite(FALSE, DigitsValue(SubSeq(s, 3, Len(s)), RadixOf(s), 0), 0)
                  ELSE NaN
        ELSE IF Head(s) \in {"+", "-"}
             THEN UnsignedDecimal(Tail(s), Head(s) = "-")
             ELSE UnsignedDecimal(s, FALSE)

\* the decimal digits of a natural number
RECURSIVE DigitsOf(_)
DigitsOf(n) ==
    IF n < 10 THEN <<DecimalDigits[n + 1]>>
    ELSE DigitsOf(n \div 10) \o <<DecimalDigits[(n % 10) + 1]>>

RECURSIVE Zeros(_)
Zeros(k) == IF k <= 0 THEN <<>> ELSE <<"0">> \o Zeros(k - 1)

\* Number::toString of ECMA-262, radix 10, for |x| < 10^21
NumberToString(n) ==
    IF n.cls = "nan" THEN <<"N", "a", "N">>
    ELSE IF n.cls = "inf"
         THEN (IF n.neg THEN <<"-">> ELSE <<>>) \o <<"I", "n", "f", "i", "n", "i", "t", "y">>
    ELSE IF n.m = 0 THEN <<"0">>
    ELSE LET ds   == DigitsOf(n.m)
             k    == Len(ds)
             pt   == k - n.sc
             sign == IF n.neg THEN <<"-">> ELSE <<>>
             body == IF n.sc = 0 THEN ds
                     ELSE IF pt > 0
                          THEN SubSeq(ds, 1, pt) \o <<".">> \o SubSeq(ds, pt + 1, k)
                     ELSE IF pt > -6
                          THEN <<"0", ".">> \o Zeros(0 - pt) \o ds
                     ELSE <<Head(ds)>> \o (IF k > 1 THEN <<".">> \o Tail(ds) ELSE <<>>)
                          \o <<"e", "-">> \o DigitsOf(1 - pt)
         IN  sign \o body

(***************************************************************************)
(* JavaScript values.  Every value is a record of the same shape, so that  *)
(* any two are comparable; only the field its kind names is meaningful.    *)
(* An object is known by the shape that decides its conversions:           *)
(*   "plain"    an object literal, String(o) = "[object Object]"           *)
(*   "array"    the empty array, String(o) = ""                            *)
(*   "noprim"   an object without a callable toString that yields a        *)
(*              primitive, e.g. {"toString": 1}: String(o) throws TypeError*)
(*   "instance" what the structural-transform capability returns           *)
(*   "extra"    a plain object with a property the class does not declare  *)
(*   "instanceExtra"  an instance that carries such a property             *)
(***************************************************************************)
Value(kind, str, num, bool, shape) ==
    [kind |-> kind, str |-> str, num |-> num, bool |-> bool, shape |-> shape]

null == Value("null", <<>>, NaN, FALSE, "none")

undefined == Value("undefined", <<>>, NaN, FALSE, "none")

Str(s) == Value("string", s, NaN, FALSE, "none")

Num(n) == Value("number", <<>>, n, FALSE, "none")

Bool(b) == Value("boolean", <<>>, NaN, b, "none")

Obj(shape) == Value("object", <<>>, NaN, FALSE, shape)

typeof(value) == IF value.kind = "null" THEN "object" ELSE value.kind

(***************************************************************************)
(* Exceptions and completions.  site names the throw statement that made   *)
(* the exception ("external": made outside the pipes).                     *)
(***************************************************************************)
NoError == [cls |-> "none", message |-> <<>>, site |-> "none"]

BadRequestException(message, site) ==
    [cls |-> "BadRequestException", message |-> message, site |-> site]

TypeError(message) == [cls |-> "TypeError", message |-> message, site |-> "external"]

Error(message) == [cls |-> "Error", message |-> message, site |-> "external"]

Return(value) == [type |-> "return", value |-> value, error |-> NoError]

Throw(error) == [type |-> "throw", value |-> undefined, error |-> error]

Pending == [type |-> "none", value |-> undefined, error |-> NoError]

\* String(value) for a value that is not a string
String(value) ==
    CASE value.kind = "number"    -> Return(Str(NumberToString(value.num)))
      [] value.kind = "boolean"   ->
            Return(Str(IF value.bool THEN <<"t", "r", "u", "e">>
                                     ELSE <<"f", "a", "l", "s", "e">>))
      [] value.kind = "null"      -> Return(Str(<<"n", "u", "l", "l">>))
      [] value.kind = "undefined" ->
            Return(Str(<<"u", "n", "d", "e", "f", "i", "n", "e", "d">>))
      [] value.kind = "object" /\ value.shape = "array"  -> Return(Str(<<>>))
      [] value.kind = "object" /\ value.shape = "noprim" ->
            Throw(TypeError(<<"Cannot convert object to primitive value">>))
      [] value.kind = "object" -> Return(Str(<<"[object Object]">>))
      [] OTHER -> Return(value)

(***************************************************************************)
(* PrimitiveValidationPipe.                                                *)
(***************************************************************************)
Switches == {"transformBoolean", "transformNumber", "transformString"}

\* An options object: each key is "true", "false" or "absent" (not named).
OptionObjects == [Switches -> {"true", "false", "absent"}]

DefaultOptions == [k \in Switches |-> "true"]

\* the constructor: the options given, or the default parameter value
PrimitiveValidationPipe(args) == IF args.given THEN args.options ELSE DefaultOptions

\* this.options.<key> in a condition: a key that is absent reads undefined
Enabled(options, key) == options[key] = "true"

TruthyWords == {<<"t", "r", "u", "e">>, <<"y", "e", "s">>, <<"1">>, <<"o", "n">>}

FalsyWords == {<<"f", "a", "l", "s", "e">>, <<"n", "o">>, <<"0">>, <<"o", "f", "f">>}

\* the String branch without the conversion
StringTransformationNoConversion(value) == Return(value)

\* the body of the String branch of transformValue
StringTransformation(value) ==
    IF typeof(value) = "string" THEN Return(value)
    ELSE IF value = null \/ value = undefined THEN Return(value)
    ELSE String(value)

\* the Number branch with the parse checked for falsiness, not for NaN
NumberTransformationFalsyCheck(value) ==
    IF typeof(value) = "number" THEN Return(value)
    ELSE IF typeof(value) = "string"
         THEN LET parsedValue == StringToNumber(value.str)
              IN  IF isNaN(parsedValue) \/ IsZero(parsedValue)
                  THEN Throw(BadRequestException(
                           <<"Cannot convert '">> \o value.str \o <<"' to a number">>,
                           "coerce"))
                  ELSE Return(Num(parsedValue))
    ELSE Throw(BadRequestException(
             <<"Cannot convert ", typeof(value), " to a number">>, "coerce"))

\* the Number branch without its last throw: other kinds fall through
NumberTransformationFallingThrough(value) ==
    IF typeof(value) = "number" THEN Return(value)
    ELSE IF typeof(value) = "string"
         THEN LET parsedValue == StringToNumber(value.str)
              IN  IF isNaN(parsedValue)
                  THEN Throw(BadRequestException(
                           <<"Cannot convert '">> \o value.str \o <<"' to a number">>,
                           "coerce"))
                  ELSE Return(Num(parsedValue))
    ELSE Return(value)

\* the body of the Number branch of transformValue
NumberTransformation(value) ==
    IF typeof(value) = "number" THEN Return(value)
    ELSE IF typeof(value) = "string"
         THEN LET parsedValue == StringToNumber(value.str)
              IN  IF isNaN(parsedValue)
                  THEN Throw(BadRequestException(
                           <<"Cannot convert '">> \o value.str \o <<"' to a number">>,
                           "coerce"))
                  ELSE Return(Num(parsedValue))
    ELSE Throw(BadRequestException(
             <<"Cannot convert ", typeof(value), " to a number">>, "coerce"))

\* the Boolean branch without the trim of the text
BooleanTransformationNoTrim(value) ==
    IF typeof(value) = "boolean" THEN Return(value)
    ELSE IF typeof(value) = "string"
         THEN LET normalizedValue == toLowerCase(value.str)
              IN  IF normalizedValue \in TruthyWords THEN Return(Bool(TRUE))
                  ELSE IF normalizedValue \in FalsyWords THEN Return(Bool(FALSE))
                  ELSE Throw(BadRequestException(
                           <<"Cannot convert string '">> \o value.str
                               \o <<"' to a boolean">>, "coerce"))
    ELSE IF typeof(value) = "number"
         THEN Return(Bool(~(IsZero(value.num) \/ isNaN(value.num))))
    ELSE Throw(BadRequestException(
             <<"Cannot convert ", typeof(value), " to a boolean">>, "coerce"))

\* the Boolean branch without its first test: a boolean is not let through
BooleanTransformationNoBooleanCase(value) ==
    IF typeof(value) = "string"
    THEN LET normalizedValue == trim(toLowerCase(value.str))
         IN  IF normalizedValue \in TruthyWords THEN Return(Bool(TRUE))
             ELSE IF normalizedValue \in FalsyWords THEN Return(Bool(FALSE))
             ELSE Throw(BadRequestException(
                      <<"Cannot convert string '">> \o value.str
                          \o <<"' to a boolean">>, "coerce"))
    ELSE IF typeof(value) = "number"
         THEN Return(Bool(~(IsZero(value.num) \/ isNaN(value.num))))
    ELSE Throw(BadRequestException(
             <<"Cannot convert ", typeof(value), " to a boolean">>, "coerce"))

\* the body of the Boolean branch of transformValue
BooleanTransformation(value) ==
    IF typeof(value) = "boolean" THEN Return(value)
    ELSE IF typeof(value) = "string"
         THEN LET normalizedValue == trim(toLowerCase(value.str))
              IN  IF normalizedValue \in TruthyWords THEN Return(Bool(TRUE))
                  ELSE IF normalizedValue \in FalsyWords THEN Return(Bool(FALSE))
                  ELSE Throw(BadRequestException(
                           <<"Cannot convert string '">> \o value.str
                               \o <<"' to a boolean">>, "coerce"))
    ELSE IF typeof(value) = "number"
         THEN Return(Bool(~(IsZero(value.num) \/ isNaN(value.num))))
    ELSE Throw(BadRequestException(
             <<"Cannot convert ", typeof(value), " to a boolean">>, "coerce"))

\* transformValue with the metatype alone deciding the branch
transformValueIgnoringSwitches(options, value, metatype) ==
    IF metatype = "String" THEN StringTransformation(value)
    ELSE IF metatype = "Number" THEN NumberTransformation(value)
    ELSE IF metatype = "Boolean" THEN BooleanTransformation(value)
    ELSE Return(value)

\* the code of transformValue
transformValue(options, value, metatype) ==
    IF metatype = "String" /\ Enabled(options, "transformString")
    THEN StringTransformation(value)
    ELSE IF metatype = "Number" /\ Enabled(options, "transformNumber")
    THEN NumberTransformation(value)
    ELSE IF metatype = "Boolean" /\ Enabled(options, "transformBoolean")
    THEN BooleanTransformation(value)
    ELSE Return(value)

\* the catch clause with the message of the error alone
PrimitiveCatchMessageOnly(completion, metadata) ==
    IF completion.type = "throw" /\ completion.error.cls # "BadRequestException"
    THEN Throw(BadRequestException(
             <<"Failed to validate: ">> \o completion.error.message, "wrap"))
    ELSE completion

\* the catch clause of transform around transformValue
PrimitiveCatch(completion, metadata) ==
    IF completion.type = "throw" /\ completion.error.cls # "BadRequestException"
    THEN Throw(BadRequestException(
             <<"Failed to validate ">> \o metadata.type \o <<": ">>
                 \o completion.error.message, "wrap"))
    ELSE completion

\* what transformValue threw into the catch clause of transform, if it was
\* reached and threw
PrimitiveThrown(options, value, metadata) ==
    IF value = null \/ value = undefined \/ metadata.metatype = "undefined"
    THEN NoError
    ELSE transformValue(options, value, metadata.metatype).error

\* transform without its early return of null and undefined
PrimitiveResolvedNoNullCheck(options, value, metadata) ==
    IF metadata.metatype = "undefined" THEN Return(value)
    ELSE PrimitiveCatch(transformValue(options, value, metadata.metatype), metadata)

\* transform from the resolved value on
PrimitiveResolved(options, value, metadata) ==
    IF value = null \/ value = undefined THEN Return(value)
    ELSE IF metadata.metatype = "undefined" THEN Return(value)
    ELSE PrimitiveCatch(transformValue(options, value, metadata.metatype), metadata)

\* the catch clause around the await of a Promise argument, in both pipes
InvalidRequestData == BadRequestException(<<"Invalid request data">>, "resolve")

\* the catch clause left empty: the rejection is dropped and the call goes
\* on to return the value it has
ResolveCatchSwallowing(reason) == Return(undefined)

\* the catch clause written as the other two are: a BadRequestException is rethrown
ResolveCatchRethrowing(reason) ==
    IF reason.cls = "BadRequestException" THEN Throw(reason) ELSE Throw(InvalidRequestData)

ResolveCatch(reason) == Throw(InvalidRequestData)

(***************************************************************************)
(* ClassValidationPipe (ClassValidatorPipe is the same code).              *)
(***************************************************************************)
ValidatorKeys == {"whitelist", "forbidNonWhitelisted"}

TransformKeys == {"enableImplicitConversion"}

\* { ...defaults, ...given }: a key the given object names overrides
Spread(defaults, given) ==
    [k \in DOMAIN defaults |-> IF given[k] = "absent" THEN defaults[k] ELSE given[k]]

\* the constructor's validatorOptions with the defaults spread last
ValidatorOptionsDefaultsLast(given) ==
    [whitelist |-> "true", forbidNonWhitelisted |-> "false"]

\* the constructor's validatorOptions
ValidatorOptions(given) ==
    Spread([whitelist |-> "true", forbidNonWhitelisted |-> "false"], given)

\* the constructor's transformOptions
TransformOptions(given) ==
    Spread([enableImplicitConversion |-> "true"], given)

BuiltinTypes == {"String", "Boolean", "Number", "Array", "Object"}

\* toValidate with the three primitive types only
toValidatePrimitivesOnly(metatype) == metatype \notin {"String", "Boolean", "Number"}

toValidate(metatype) == metatype \notin BuiltinTypes

\* a ValidationError of class-validator:
\*   [property, hasConstraints, constraints, children]
\* constraints are the values of the constraints object, in its order, when
\* the node has one; children may be empty.
Truthy(text) == text.kind = "string" /\ Len(text.str) > 0

\* buildErrorMessages without the descent into children
buildErrorMessagesTopLevel(errors, parentProperty) ==
    LET Segment(error) == error.property \o <<": ">> \o join(error.constraints, <<", ">>)
        kept == SelectSeq(errors, LAMBDA error : error.hasConstraints)
    IN  [i \in 1..Len(kept) |-> Segment(kept[i])]

RECURSIVE buildErrorMessages(_, _)
buildErrorMessages(errors, parentProperty) ==
    IF Len(errors) = 0 THEN <<>>
    ELSE LET error == Head(errors)
             propertyPath ==
                 IF Truthy(parentProperty)
                 THEN parentProperty.str \o <<".">> \o error.property
                 ELSE error.property
             own ==
                 IF error.hasConstraints
                 THEN <<propertyPath \o <<": ">> \o join(error.constraints, <<", ">>)>>
                 ELSE <<>>
             nested ==
                 IF Len(error.children) > 0
                 THEN buildErrorMessages(error.children, Str(propertyPath))
                 ELSE <<>>
         IN  own \o nested \o buildErrorMessages(Tail(errors), parentProperty)

\* the catch clause with the message of the error passed on
StructuredCatchEchoing(completion) ==
    IF completion.type = "throw" /\ completion.error.cls # "BadRequestException"
    THEN Throw(BadRequestException(
             <<"Validation failed: ">> \o completion.error.message, "generic"))
    ELSE completion

\* the catch clause without its instanceof test
StructuredCatchWrappingAll(completion) ==
    IF completion.type = "throw"
    THEN Throw(BadRequestException(<<"Validation failed">>, "generic"))
    ELSE completion

\* the catch clause of transform around plainToInstance and validate
StructuredCatch(completion) ==
    IF completion.type = "throw" /\ completion.error.cls # "BadRequestException"
    THEN Throw(BadRequestException(<<"Validation failed">>, "generic"))
    ELSE completion

\* transform after validate, with one error let through
StructuredValidatedMoreThanOne(object, errors) ==
    StructuredCatch(
        IF Len(errors) > 1
        THEN Throw(BadRequestException(
                 join(buildErrorMessages(errors, undefined), <<"; ">>), "violations"))
        ELSE Return(object))

\* transform after validate has resolved with errors
StructuredValidated(object, errors) ==
    StructuredCatch(
        IF Len(errors) > 0
        THEN Throw(BadRequestException(
                 join(buildErrorMessages(errors, undefined), <<"; ">>), "violations"))
        ELSE Return(object))

\* the two early returns of transform after the argument is resolved
StructuredSkips(resolvedValue, metadata) ==
    \/ metadata.metatype = "undefined" \/ ~toValidate(metadata.metatype)
    \/ resolvedValue = null \/ resolvedValue = undefined

(***************************************************************************)
(* The arguments the model draws.                                          *)
(***************************************************************************)
Alphabet == {"0", "1", ".", "-", "+", " ", "a"}

BoundedTexts == UNION {[1..k -> Alphabet] : k \in 0..MaxLen}

SampleTexts ==
    { <<"a", "b", "c">>, <<"1", "2", "a", "b", "c">>, <<"1", "2", "3">>,
      <<"1", "2", ".", "5">>, <<"-", "4", "2">>, <<"4", "2">>, <<" ", "4", "2", " ">>,
      <<"\t">>, <<"I", "n", "f", "i", "n", "i", "t", "y">>, <<"1", "e", "3">>,
      <<"0", "x", "1", "f">>, <<"N", "a", "N">>,
      <<"t", "r", "u", "e">>, <<"T", "R", "U", "E">>, <<"y", "e", "s">>,
      <<"Y", "e", "s">>, <<" ", "y", "e", "s", " ">>, <<"o", "n">>, <<"O", "N", "\t">>,
      <<"f", "a", "l", "s", "e">>, <<"F", "A", "L", "S", "E">>, <<"n", "o">>,
      <<"N", "o">>, <<"o", "f", "f">>, <<" ", "o", "f", "f">>,
      <<"m", "a", "y", "b", "e">>, <<"2">>, <<"t", "r", "u", "e", "x">>,
      <<"n", "u", "l", "l">> }

Texts == BoundedTexts \cup SampleTexts

Numbers ==
    { Int2Num(0), Finite(TRUE, 0, 0), Int2Num(1), Int2Num(42), Int2Num(-1),
      Finite(FALSE, 125, 1), Finite(TRUE, 5, 1), NaN, Infinite(FALSE), Infinite(TRUE) }

Objects == {Obj("plain"), Obj("array"), Obj("noprim")}

Values ==
    {null, undefined} \cup {Str(t) : t \in Texts} \cup {Num(n) : n \in Numbers}
        \cup {Bool(b) : b \in BOOLEAN} \cup Objects

\* the values drawn for the structured stage
StructuredValues ==
    {null, undefined, Str(<<"a", "b", "c">>), Obj("plain"), Obj("array"), Obj("extra")}

Metatypes == {"undefined", "String", "Number", "Boolean", "Array", "Object", "Dto"}

\* metadata.type, the label of the argument
ArgumentTypes == {<<"param">>, <<"body">>}

Metadata == [metatype : Metatypes, type : ArgumentTypes]

\* what a Promise argument may be rejected with
RejectionReasons ==
    { Error(<<"socket hang up">>),
      BadRequestException(<<"Payload too large">>, "external") }

\* what plainToInstance and validate may throw
CapabilityFailures ==
    { TypeError(<<"Cannot read properties of undefined">>),
      Error(<<"connect ECONNREFUSED">>),
      BadRequestException(<<"Custom rule rejected the value">>, "external") }

\* what plainToInstance returns: an instance for an object, with the
\* properties of the object (excludeExtraneousValues is not set), the value
\* itself for a primitive
PlainToInstanceReturns(value) ==
    IF value.kind = "object"
    THEN {IF value.shape = "extra" THEN Obj("instanceExtra") ELSE Obj("instance")}
    ELSE {value}

(***************************************************************************)
(* The violation trees validate may report.                                *)
(***************************************************************************)
PropertyNames == {<<"name">>, <<"address">>, <<"street">>}

ConstraintMessages ==
    <<<<"must be a string">>, <<"must be longer than or equal to 2 characters">>>>

Node(property, hasConstraints, constraints, children) ==
    [property |-> property, hasConstraints |-> hasConstraints,
     constraints |-> constraints, children |-> children]

\* a node's constraints: one message or two, or no constraints object
OneMessage == <<TRUE, SubSeq(ConstraintMessages, 1, 1)>>

OtherMessage == <<TRUE, SubSeq(ConstraintMessages, 2, 2)>>

TwoMessages == <<TRUE, ConstraintMessages>>

NoConstraints == <<FALSE, <<>>>>

\* a node has constraints, children or both
Leaves ==
    {Node(p, c[1], c[2], <<>>) : p \in PropertyNames, c \in {OneMessage, TwoMessages}}

FewLeaves ==
    { Node(<<"name">>, TRUE, OneMessage[2], <<>>),
      Node(<<"street">>, TRUE, TwoMessages[2], <<>>) }

Parents ==
    {Node(p, c[1], c[2], <<l>>) :
        p \in PropertyNames, c \in {NoConstraints, OtherMessage}, l \in Leaves}
    \cup {Node(p, c[1], c[2], <<l1, l2>>) :
            p \in PropertyNames, c \in {NoConstraints, OtherMessage},
            l1 \in FewLeaves, l2 \in FewLeaves}

FewParents == {Node(p, NoConstraints[1], NoConstraints[2], <<l>>) :
                 p \in PropertyNames, l \in FewLeaves}

GrandParents ==
    {Node(p, c[1], c[2], <<m>>) :
        p \in PropertyNames, c \in {NoConstraints, OtherMessage}, m \in FewParents}
    \cup {Node(<<"name">>, c[1], c[2], <<m, l>>) :
            c \in {NoConstraints, OtherMessage}, m \in FewParents, l \in FewLeaves}

Nodes == Leaves \cup Parents \cup GrandParents

FewNodes ==
    FewLeaves \cup
    { Node(<<"address">>, NoConstraints[1], NoConstraints[2],
           <<Node(<<"street">>, TRUE, OneMessage[2], <<>>)>>),
      Node(<<"address">>, TRUE, OneMessage[2],
           <<Node(<<"name">>, TRUE, TwoMessages[2], <<>>)>>) }

\* the arrays validate may resolve with
ErrorLists ==
    {<<>>} \cup {<<n>> : n \in Nodes} \cup {<<n1, n2>> : n1 \in FewNodes, n2 \in FewNodes}

(***************************************************************************)
(* The arguments drawn when two calls are in flight at once.               *)
(***************************************************************************)
FewValues ==
    { null, Str(<<"4", "2">>), Str(<<"a", "b", "c">>), Num(Int2Num(0)), Bool(TRUE),
      Obj("noprim") }

FewStructuredValues == {null, Obj("plain"), Obj("extra")}

FewMetadata == [metatype : {"String", "Number", "Dto"}, type : {<<"body">>}]

FewErrorLists ==
    {<<>>, <<Node(<<"name">>, TRUE, OneMessage[2], <<>>)>>}

(***************************************************************************)
(* validate's whitelist step, before the decorators' rules are checked: a  *)
(* property without decorators is removed from the object, or reported     *)
(* when forbidNonWhitelisted is on; without whitelist it is left alone.    *)
(***************************************************************************)
WhitelistViolation ==
    Node(<<"extra">>, TRUE, <<<<"property extra should not exist">>>>, <<>>)

Forbidden(object, validatorOptions) ==
    /\ object.kind = "object" /\ object.shape = "instanceExtra"
    /\ validatorOptions["whitelist"] = "true"
    /\ validatorOptions["forbidNonWhitelisted"] = "true"

Removed(object, validatorOptions) ==
    /\ object.kind = "object" /\ object.shape = "instanceExtra"
    /\ validatorOptions["whitelist"] = "true"
    /\ validatorOptions["forbidNonWhitelisted"] # "true"

\* the errors validate resolves with, the rules reporting ruleErrors
ValidateErrors(object, validatorOptions, ruleErrors) ==
    (IF Forbidden(object, validatorOptions) THEN <<WhitelistViolation>> ELSE <<>>)
        \o ruleErrors

\* the object after validate
Whitelisted(object, validatorOptions) ==
    IF Removed(object, validatorOptions) THEN Obj("instance") ELSE object

(***************************************************************************)
(* State.                                                                  *)
(*   stage             which pipe class the instance is                    *)
(*   args              what its constructor was called with                *)
(*   options           the object this.options refers to (primitive)       *)
(*   validatorOptions, transformOptions   the fields of the same name      *)
(*   calls             the transform calls in progress on the instance     *)
(*   passed            the objects the constructor was called with, as     *)
(*                     they are now in the hands of the code that built    *)
(*                     the pipe                                            *)
(***************************************************************************)
VARIABLES stage, args, options, validatorOptions, transformOptions, calls, passed

vars == <<stage, args, options, validatorOptions, transformOptions, calls, passed>>

pipe == <<stage, args, options, validatorOptions, transformOptions>>

AbsentAll(keys) == [k \in keys |-> "absent"]

NoArgs ==
    [given |-> FALSE, options |-> AbsentAll(Switches),
     validatorOptions |-> AbsentAll(ValidatorKeys),
     transformOptions |-> AbsentAll(TransformKeys)]

PrimitiveArgs ==
    {NoArgs} \cup {[NoArgs EXCEPT !.given = TRUE, !.options = o] : o \in OptionObjects}

StructuredArgs ==
    { [NoArgs EXCEPT !.validatorOptions = v, !.transformOptions = t] :
        v \in [ValidatorKeys -> {"true", "false", "absent"}],
        t \in [TransformKeys -> {"true", "false", "absent"}] }

\* a call of transform: where it is (pc), its arguments, what the awaits gave
\* and how it ended; how often it suspended, how often it called
\* plainToInstance and validate and with what (instance is what
\* plainToInstance returned, object the same object as it is now); pass is 2
\* and previous the first result when the pipe is run on its own result
IdleCall ==
    [pc |-> "idle", promise |-> FALSE, value |-> undefined,
     metadata |-> [metatype |-> "undefined", type |-> <<>>],
     settled |-> "none", reason |-> NoError, resolvedValue |-> undefined,
     object |-> undefined, validated |-> "none", errors |-> <<>>,
     result |-> Pending,
     suspensions |-> 0,
     plainToInstanceCalls |-> 0, transformWith |-> AbsentAll(TransformKeys),
     thrown |-> NoError,
     instance |-> undefined,
     validateCalls |-> 0, validateWith |-> AbsentAll(ValidatorKeys),
     validateArg |-> undefined,
     pass |-> 1, previous |-> Pending]

\* the calls of one caller that awaits each result before its next call
OneCall == {1}

\* the calls of two requests served by one instance
TwoCalls == {1, 2}

\* the objects a constructor call passed
Passed(arguments) ==
    [options |-> arguments.options, validatorOptions |-> arguments.validatorOptions,
     transformOptions |-> arguments.transformOptions]

Done(call, completion) == [call EXCEPT !.pc = "done", !.result = completion]

\* what the calls are given and what the awaits give: everything above for
\* the calls of one caller, the samples when two calls are in flight
Several == DOMAIN calls # OneCall

MetadataDrawn == IF Several THEN FewMetadata ELSE Metadata

ValuesDrawn == IF Several THEN FewValues ELSE Values

StructuredValuesDrawn == IF Several THEN FewStructuredValues ELSE StructuredValues

ErrorListsDrawn == IF Several THEN FewErrorLists ELSE ErrorLists

Init ==
    /\ stage \in {"primitive", "structured"}
    /\ args \in (IF stage = "primitive" THEN PrimitiveArgs ELSE StructuredArgs)
    /\ options = PrimitiveValidationPipe(args)
    /\ validatorOptions = ValidatorOptions(args.validatorOptions)
    /\ transformOptions = TransformOptions(args.transformOptions)
    /\ calls = [c \in OneCall |-> IdleCall]
    /\ passed = Passed(args)

\* PrimitiveValidationPipe.transform from its entry to its await, or to its
\* end when the argument is no Promise
PrimitiveTransform(c) ==
    /\ stage = "primitive"
    /\ calls[c].pc = "idle"
    /\ \E metadata \in MetadataDrawn :
         \/ calls' = [calls EXCEPT ![c] =
                [IdleCall EXCEPT !.pc = "awaitInput", !.promise = TRUE,
                                 !.metadata = metadata, !.suspensions = 1]]
         \/ \E value \in ValuesDrawn :
              calls' = [calls EXCEPT ![c] =
                Done([IdleCall EXCEPT !.value = value, !.metadata = metadata,
                                      !.resolvedValue = value,
                                      !.thrown = PrimitiveThrown(options, value, metadata)],
                     PrimitiveResolved(options, value, metadata))]
    /\ UNCHANGED <<pipe, passed>>

\* the Promise argument settles and transform runs to its end
PrimitiveInputSettled(c) ==
    /\ stage = "primitive"
    /\ calls[c].pc = "awaitInput"
    /\ \/ \E reason \in RejectionReasons :
            calls' = [calls EXCEPT ![c] =
                Done([@ EXCEPT !.settled = "rejected", !.reason = reason],
                     ResolveCatch(reason))]
       \/ \E value \in ValuesDrawn :
            calls' = [calls EXCEPT ![c] =
                Done([@ EXCEPT !.settled = "fulfilled", !.resolvedValue = value,
                               !.thrown = PrimitiveThrown(options, value,
                                                          calls[c].metadata)],
                     PrimitiveResolved(options, value, calls[c].metadata))]
    /\ UNCHANGED <<pipe, passed>>

\* ClassValidationPipe.transform from the resolved argument to its await of
\* validate, or to its end: the calls a call record may continue as
\* the same with plainToInstance called before the two early returns
StructuredResolvedTransformingFirst(call, value) ==
    LET resolved == [call EXCEPT !.resolvedValue = value]
        called   == [resolved EXCEPT !.plainToInstanceCalls = @ + 1,
                                     !.transformWith = transformOptions]
    IN  IF StructuredSkips(value, call.metadata)
        THEN {Done(called, Return(value))}
        ELSE {Done([called EXCEPT !.thrown = e], StructuredCatch(Throw(e))) :
                e \in CapabilityFailures}
             \cup {[called EXCEPT !.pc = "awaitValidate", !.object = object,
                                  !.instance = object,
                                  !.validateCalls = @ + 1,
                                  !.validateWith = validatorOptions,
                                  !.validateArg = object,
                                  !.suspensions = @ + 1] :
                     object \in PlainToInstanceReturns(value)}

\* the same with validate called and its Promise not awaited: errors.length
\* is undefined and the object is returned at once
StructuredResolvedNotAwaiting(call, value) ==
    LET resolved == [call EXCEPT !.resolvedValue = value]
        called   == [resolved EXCEPT !.plainToInstanceCalls = @ + 1,
                                     !.transformWith = transformOptions]
    IN  IF StructuredSkips(value, call.metadata)
        THEN {Done(resolved, Return(value))}
        ELSE {Done([called EXCEPT !.thrown = e], StructuredCatch(Throw(e))) :
                e \in CapabilityFailures}
             \cup {Done([called EXCEPT !.object = object, !.instance = object,
                                       !.validateCalls = @ + 1,
                                       !.validateWith = validatorOptions,
                                       !.validateArg = object],
                        Return(object)) :
                     object \in PlainToInstanceReturns(value)}

StructuredResolved(call, value) ==
    LET resolved == [call EXCEPT !.resolvedValue = value]
        called   == [resolved EXCEPT !.plainToInstanceCalls = @ + 1,
                                     !.transformWith = transformOptions]
    IN  IF StructuredSkips(value, call.metadata)
        THEN {Done(resolved, Return(value))}
        ELSE {Done([called EXCEPT !.thrown = e], StructuredCatch(Throw(e))) :
                e \in CapabilityFailures}
             \cup {[called EXCEPT !.pc = "awaitValidate", !.object = object,
                                  !.instance = object,
                                  !.validateCalls = @ + 1,
                                  !.validateWith = validatorOptions,
                                  !.validateArg = object,
                                  !.suspensions = @ + 1] :
                     object \in PlainToInstanceReturns(value)}

StructuredTransform(c) ==
    /\ stage = "structured"
    /\ calls[c].pc = "idle"
    /\ \E metadata \in MetadataDrawn :
         \/ calls' = [calls EXCEPT ![c] =
                [IdleCall EXCEPT !.pc = "awaitInput", !.promise = TRUE,
                                 !.metadata = metadata, !.suspensions = 1]]
         \/ \E value \in StructuredValuesDrawn :
            \E next \in StructuredResolved(
                          [IdleCall EXCEPT !.value = value, !.metadata = metadata], value) :
              calls' = [calls EXCEPT ![c] = next]
    /\ UNCHANGED <<pipe, passed>>

StructuredInputSettled(c) ==
    /\ stage = "structured"
    /\ calls[c].pc = "awaitInput"
    /\ \/ \E reason \in RejectionReasons :
            calls' = [calls EXCEPT ![c] =
                Done([@ EXCEPT !.settled = "rejected", !.reason = reason],
                     ResolveCatch(reason))]
       \/ \E value \in StructuredValuesDrawn :
          \E next \in StructuredResolved([calls[c] EXCEPT !.settled = "fulfilled"], value) :
            calls' = [calls EXCEPT ![c] = next]
    /\ UNCHANGED <<pipe, passed>>

\* validate settles and transform runs to its end
StructuredValidateSettled(c) ==
    /\ stage = "structured"
    /\ calls[c].pc = "awaitValidate"
    /\ \/ \E e \in CapabilityFailures :
            calls' = [calls EXCEPT ![c] =
                Done([@ EXCEPT !.validated = "rejected", !.thrown = e],
                     StructuredCatch(Throw(e)))]
       \/ \E ruleErrors \in ErrorListsDrawn :
            LET object == Whitelisted(calls[c].object, calls[c].validateWith)
                errors == ValidateErrors(calls[c].object, calls[c].validateWith,
                                         ruleErrors)
            IN  calls' = [calls EXCEPT ![c] =
                    Done([@ EXCEPT !.validated = "fulfilled", !.errors = errors,
                                   !.object = object],
                         StructuredValidated(object, errors))]
    /\ UNCHANGED <<pipe, passed>>

\* the caller takes the result; the call is over
Consume(c) ==
    /\ calls[c].pc = "done"
    /\ calls' = [calls EXCEPT ![c] = IdleCall]
    /\ UNCHANGED <<pipe, passed>>

Next ==
    \/ \E c \in DOMAIN calls : PrimitiveTransform(c)
    \/ \E c \in DOMAIN calls : PrimitiveInputSettled(c)
    \/ \E c \in DOMAIN calls : StructuredTransform(c)
    \/ \E c \in DOMAIN calls : StructuredInputSettled(c)
    \/ \E c \in DOMAIN calls : StructuredValidateSettled(c)
    \/ \E c \in DOMAIN calls : Consume(c)

Spec == Init /\ [][Next]_vars

(***************************************************************************)
(* The primitive pipe run twice on one argument, as when it is registered  *)
(* globally and on the parameter: the value the first run returned is the  *)
(* argument of the second, under the same metadata.                        *)
(***************************************************************************)
InitTwice ==
    /\ stage = "primitive"
    /\ args \in PrimitiveArgs
    /\ options = PrimitiveValidationPipe(args)
    /\ validatorOptions = ValidatorOptions(args.validatorOptions)
    /\ transformOptions = TransformOptions(args.transformOptions)
    /\ calls = [c \in OneCall |-> IdleCall]
    /\ passed = Passed(args)

PrimitiveTransformAgain(c) ==
    /\ stage = "primitive"
    /\ calls[c].pc = "done" /\ calls[c].pass = 1
    /\ calls[c].result.type = "return"
    /\ LET value    == calls[c].result.value
           metadata == calls[c].metadata
       IN  calls' = [calls EXCEPT ![c] =
                Done([IdleCall EXCEPT !.value = value, !.metadata = metadata,
                                      !.resolvedValue = value,
                                      !.thrown = PrimitiveThrown(options, value, metadata),
                                      !.pass = 2, !.previous = calls[c].result],
                     PrimitiveResolved(options, value, metadata))]
    /\ UNCHANGED <<pipe, passed>>

NextTwice ==
    \/ \E c \in DOMAIN calls : PrimitiveTransform(c)
    \/ \E c \in DOMAIN calls : PrimitiveInputSettled(c)
    \/ \E c \in DOMAIN calls : PrimitiveTransformAgain(c)
    \/ \E c \in DOMAIN calls : Consume(c)

SpecTwice == InitTwice /\ [][NextTwice]_vars

(***************************************************************************)
(* One instance serving two requests, while the code that built it goes on *)
(* using the objects it passed to the constructor.                         *)
(***************************************************************************)
SharedPrimitiveArgs ==
    { NoArgs,
      [NoArgs EXCEPT !.given = TRUE, !.options = DefaultOptions],
      [NoArgs EXCEPT !.given = TRUE,
                     !.options = [AbsentAll(Switches) EXCEPT !["transformNumber"] = "false"]] }

SharedStructuredArgs ==
    { NoArgs,
      [NoArgs EXCEPT !.validatorOptions =
                        [AbsentAll(ValidatorKeys) EXCEPT !["forbidNonWhitelisted"] = "true"]],
      [NoArgs EXCEPT !.validatorOptions =
                        [AbsentAll(ValidatorKeys) EXCEPT !["whitelist"] = "false"],
                     !.transformOptions =
                        [AbsentAll(TransformKeys) EXCEPT
                            !["enableImplicitConversion"] = "false"]] }

InitShared ==
    /\ stage \in {"primitive", "structured"}
    /\ args \in (IF stage = "primitive" THEN SharedPrimitiveArgs ELSE SharedStructuredArgs)
    /\ options = PrimitiveValidationPipe(args)
    /\ validatorOptions = ValidatorOptions(args.validatorOptions)
    /\ transformOptions = TransformOptions(args.transformOptions)
    /\ calls = [c \in TwoCalls |-> IdleCall]
    /\ passed = Passed(args)

\* the code that built the pipe assigns to a property of an object it passed
\* to the constructor.  this.options of the primitive pipe is the object
\* passed; the class pipe holds objects of its own, made by the constructor.
CallerAssigns ==
    /\ \/ /\ stage = "primitive" /\ args.given
          /\ \E key \in Switches, v \in {"true", "false"} :
                passed' = [passed EXCEPT !.options[key] = v]
          /\ options' = passed'.options
       \/ /\ stage = "structured"
          /\ \/ \E key \in ValidatorKeys, v \in {"true", "false"} :
                  passed' = [passed EXCEPT !.validatorOptions[key] = v]
             \/ \E key \in TransformKeys, v \in {"true", "false"} :
                  passed' = [passed EXCEPT !.transformOptions[key] = v]
          /\ UNCHANGED options
    /\ passed' # passed
    /\ UNCHANGED <<stage, args, validatorOptions, transformOptions, calls>>

NextShared ==
    \/ \E c \in DOMAIN calls : PrimitiveTransform(c)
    \/ \E c \in DOMAIN calls : PrimitiveInputSettled(c)
    \/ \E c \in DOMAIN calls : StructuredTransform(c)
    \/ \E c \in DOMAIN calls : StructuredInputSettled(c)
    \/ \E c \in DOMAIN calls : StructuredValidateSettled(c)
    \/ \E c \in DOMAIN calls : Consume(c)
    \/ CallerAssigns

SpecShared == InitShared /\ [][NextShared]_vars

(***************************************************************************)
(* The same, with every awaited Promise settling: a Promise argument is    *)
(* fulfilled or rejected in the end, and so is the Promise validate        *)
(* returned.  Nothing makes a caller call transform or take its result;    *)
(* the code that built the pipe leaves the objects it passed alone.        *)
(***************************************************************************)
Settling ==
    \A c \in TwoCalls :
        /\ WF_vars(PrimitiveInputSettled(c))
        /\ WF_vars(StructuredInputSettled(c))
        /\ WF_vars(StructuredValidateSettled(c))

SpecSettling == InitShared /\ [][Next]_vars /\ Settling

(***************************************************************************)
(* What the properties below speak of.                                     *)
(***************************************************************************)
Finished(c) == calls[c].pc = "done"

\* a finished call whose argument was given directly or resolved
Resolved(c) == Finished(c) /\ calls[c].settled # "rejected"

Primitive(c) == stage = "primitive" /\ Resolved(c)

Structured(c) == stage = "structured" /\ Resolved(c)

Nullish(value) == value = null \/ value = undefined

Target(c) == calls[c].metadata.metatype

\* a finished primitive call with the coercion to metatype enabled
Coercing(c, metatype, key) ==
    Primitive(c) /\ Target(c) = metatype /\ Enabled(options, key)

Text(c) == calls[c].resolvedValue.str

ConversionError(message) == Throw(BadRequestException(message, "coerce"))

NumberLooking(text) == StringToNumber(text).cls = "fin" /\ Len(trim(text)) > 0

C2_NotNumberLookingThrows ==
    \A c \in DOMAIN calls :
        /\ Coercing(c, "Number", "transformNumber")
        /\ calls[c].resolvedValue.kind = "string"
        /\ ~NumberLooking(Text(c))
        => calls[c].result =
             ConversionError(<<"Cannot convert '">> \o Text(c) \o <<"' to a number">>)

(***************************************************************************)
(* C3.  With the Number coercion enabled and metatype Number, a number is  *)
(* returned as it is and a text that parses to a finite number returns     *)
(* that number; "123", "12.5", "-42" and "0" return 123, 12.5, -42 and 0.  *)
(***************************************************************************)
DocumentedNumbers ==
    { <<<<"1", "2", "3">>, Int2Num(123)>>,
      <<<<"1", "2", ".", "5">>, [cls |-> "fin", neg |-> FALSE, m |-> 125, sc |-> 1]>>,
      <<<<"-", "4", "2">>, Int2Num(-42)>>,
      <<<<"0">>, Int2Num(0)>> }

C3_NumberLookingParsed ==
    \A c \in DOMAIN calls :
        Coercing(c, "Number", "transformNumber") =>
            /\ calls[c].resolvedValue.kind = "number"
                 => calls[c].result = Return(calls[c].resolvedValue)
            /\ calls[c].resolvedValue.kind = "string"
               /\ StringToNumber(Text(c)).cls = "fin"
                 => calls[c].result = Return(Num(StringToNumber(Text(c))))
            /\ \A d \in DocumentedNumbers :
                 calls[c].resolvedValue = Str(d[1]) => calls[c].result = Return(Num(d[2]))

\* "12.5" came back as the number 12.5
C3_Witness ==
    \E c \in DOMAIN calls :
        /\ Coercing(c, "Number", "transformNumber")
        /\ calls[c].resolvedValue = Str(<<"1", "2", ".", "5">>)
        /\ calls[c].result = Return(Num(Finite(FALSE, 125, 1)))

(***************************************************************************)
(* C4.  With the Boolean coercion enabled and metatype Boolean: a boolean  *)
(* is returned as it is; a text, lower-cased and trimmed, returns true     *)
(* when it is true, yes, 1 or on, false when it is false, no, 0 or off,    *)
(* and otherwise throws "Cannot convert string '<value>' to a boolean";    *)
(* a number returns false when it is zero and true when it is any other    *)
(* number, negative or infinite (NaN, which is no number, returns false).  *)
(***************************************************************************)
DocumentedTrue ==
    { <<"t", "r", "u", "e">>, <<"y", "e", "s">>, <<"1">>, <<"o", "n">>,
      <<"T", "R", "U", "E">>, <<"Y", "e", "s">>, <<" ", "y", "e", "s", " ">> }

DocumentedFalse ==
    { <<"f", "a", "l", "s", "e">>, <<"n", "o">>, <<"0">>, <<"o", "f", "f">>,
      <<"F", "A", "L", "S", "E">>, <<"N", "o">>, <<" ", "o", "f", "f">> }

DocumentedNeither == {<<"m", "a", "y", "b", "e">>, <<"2">>}

BooleanError(text) ==
    ConversionError(<<"Cannot convert string '">> \o text \o <<"' to a boolean">>)

C4_BooleanCoercion ==
    \A c \in DOMAIN calls :
        Coercing(c, "Boolean", "transformBoolean") =>
            LET value == calls[c].resolvedValue
                word  == trim(toLowerCase(value.str))
                yes   == {<<"t", "r", "u", "e">>, <<"y", "e", "s">>, <<"1">>, <<"o", "n">>}
                no    == {<<"f", "a", "l", "s", "e">>, <<"n", "o">>, <<"0">>, <<"o", "f", "f">>}
            IN  /\ value.kind = "boolean" => calls[c].result = Return(value)
                /\ value.kind = "string" =>
                     /\ word \in yes => calls[c].result = Return(Bool(TRUE))
                     /\ word \in no => calls[c].result = Return(Bool(FALSE))
                     /\ word \notin yes \cup no => calls[c].result = BooleanError(value.str)
                     /\ value.str \in DocumentedTrue => calls[c].result = Return(Bool(TRUE))
                     /\ value.str \in DocumentedFalse => calls[c].result = Return(Bool(FALSE))
                     /\ value.str \in DocumentedNeither
                          => calls[c].result = BooleanError(value.str)
                /\ value.kind = "number" =>
                     /\ value.num.cls = "fin" /\ value.num.m = 0
                          => calls[c].result = Return(Bool(FALSE))
                     /\ value.num.cls = "inf" \/ (value.num.cls = "fin" /\ value.num.m # 0)
                          => calls[c].result = Return(Bool(TRUE))
                     /\ value.num.cls = "nan" => calls[c].result = Return(Bool(FALSE))

\* the text " yes " came back as true
C4_Witness ==
    \E c \in DOMAIN calls :
        /\ Coercing(c, "Boolean", "transformBoolean")
        /\ calls[c].resolvedValue = Str(<<" ", "y", "e", "s", " ">>)
        /\ calls[c].result = Return(Bool(TRUE))

(***************************************************************************)
(* C5.  As claimed: with the String coercion enabled and metatype String,  *)
(* a text is returned as it is, every other value that is not null or      *)
(* undefined returns its string form, and the call never throws.           *)
(***************************************************************************)
\* the string forms of the values drawn that have one
StringForms ==
    { <<Num(Int2Num(0)), <<"0">>>>, <<Num(Finite(TRUE, 0, 0)), <<"0">>>>,
      <<Num(Int2Num(1)), <<"1">>>>, <<Num(Int2Num(42)), <<"4", "2">>>>,
      <<Num(Int2Num(-1)), <<"-", "1">>>>,
      <<Num(Finite(FALSE, 125, 1)), <<"1", "2", ".", "5">>>>,
      <<Num(Finite(TRUE, 5, 1)), <<"-", "0", ".", "5">>>>,
      <<Num(NaN), <<"N", "a", "N">>>>,
      <<Num(Infinite(FALSE)), <<"I", "n", "f", "i", "n", "i", "t", "y">>>>,
      <<Num(Infinite(TRUE)), <<"-", "I", "n", "f", "i", "n", "i", "t", "y">>>>,
      <<Bool(TRUE), <<"t", "r", "u", "e">>>>,
      <<Bool(FALSE), <<"f", "a", "l", "s", "e">>>>,
      <<Obj("plain"), <<"[object Object]">>>>,
      <<Obj("array"), <<>>>> }

\* an object String() cannot convert to a primitive
Unconvertible(value) == value.kind = "object" /\ value.shape = "noprim"

KeyOf(metatype) ==
    CASE metatype = "String"  -> "transformString"
      [] metatype = "Number"  -> "transformNumber"
      [] metatype = "Boolean" -> "transformBoolean"

Coerced(value, metadata) ==
    PrimitiveCatch(
        CASE metadata.metatype = "String"  -> StringTransformation(value)
          [] metadata.metatype = "Number"  -> NumberTransformation(value)
          [] metadata.metatype = "Boolean" -> BooleanTransformation(value),
        metadata)

C6_EnabledUnlessSetFalse ==
    \A c \in DOMAIN calls :
        /\ Primitive(c) /\ ~Nullish(calls[c].resolvedValue)
        /\ Target(c) \in {"String", "Number", "Boolean"}
        /\ ~(args.given /\ args.options[KeyOf(Target(c))] = "false")
        => calls[c].result = Coerced(calls[c].resolvedValue, calls[c].metadata)

(***************************************************************************)
(* C7.  When the switch of the declared primitive metatype is off, the     *)
(* resolved argument is returned as it is, whatever its kind, and the call *)
(* does not throw: with transformNumber false and metatype Number, "42"    *)
(* returns the text "42" and "abc" the text "abc".                         *)
(***************************************************************************)
C7_DisabledPassThrough ==
    \A c \in DOMAIN calls :
        /\ Primitive(c)
        /\ Target(c) \in {"String", "Number", "Boolean"}
        /\ ~Enabled(options, KeyOf(Target(c)))
        => calls[c].result = Return(calls[c].resolvedValue)

\* with transformNumber false, the text "abc" came back under metatype Number
C7_Witness ==
    \E c \in DOMAIN calls :
        /\ Primitive(c) /\ Target(c) = "Number"
        /\ args.given /\ args.options["transformNumber"] = "false"
        /\ calls[c].resolvedValue = Str(<<"a", "b", "c">>)
        /\ calls[c].result = Return(Str(<<"a", "b", "c">>))

(***************************************************************************)
(* C8.  In both pipes a Promise argument that is rejected makes the call   *)
(* throw BadRequestException("Invalid request data"), whatever the reason  *)
(* (a BadRequestException too), the metatype and the options; and no call  *)
(* throws the exception of that throw statement, or one the pipe made with *)
(* that message, unless its argument was rejected.                         *)
(***************************************************************************)
C8_InvalidInput ==
    \A c \in DOMAIN calls :
        Finished(c) =>
            /\ calls[c].settled = "rejected" =>
                 calls[c].result =
                   Throw(BadRequestException(<<"Invalid request data">>, "resolve"))
            /\ /\ calls[c].result.type = "throw"
               /\ \/ calls[c].result.error.site = "resolve"
                  \/ /\ calls[c].result.error.site # "external"
                     /\ calls[c].result.error.message = <<"Invalid request data">>
               => calls[c].settled = "rejected"

\* a Promise rejected with a BadRequestException, no metatype declared
C8_Witness ==
    \E c \in DOMAIN calls :
        /\ Finished(c) /\ calls[c].settled = "rejected"
        /\ calls[c].reason.cls = "BadRequestException"
        /\ Target(c) = "undefined"
        /\ calls[c].result.error.message = <<"Invalid request data">>

(***************************************************************************)
(* C9.  The resolved argument is returned as it is, and the call does not  *)
(* throw: in both pipes when no metatype is declared; in the class pipe    *)
(* when the metatype is String, Number, Boolean, Array or Object; in the   *)
(* primitive pipe when the metatype is not String, Number or Boolean.      *)
(***************************************************************************)
C9_OutsidePassThrough ==
    \A c \in DOMAIN calls :
        /\ Resolved(c)
        /\ \/ Target(c) = "undefined"
           \/ /\ stage = "structured"
              /\ Target(c) \in {"String", "Number", "Boolean", "Array", "Object"}
           \/ /\ stage = "primitive"
              /\ Target(c) \notin {"String", "Number", "Boolean"}
        => calls[c].result = Return(calls[c].resolvedValue)

\* the class pipe gave an array back under metatype Array
C9_Witness ==
    \E c \in DOMAIN calls :
        /\ Structured(c) /\ Target(c) = "Array"
        /\ calls[c].resolvedValue = Obj("array")
        /\ calls[c].result = Return(Obj("array"))

(***************************************************************************)
(* C10.  As claimed: when validate reports violations, the message thrown  *)
(* has one segment "<propertyPath>: <constraint messages>" for every node  *)
(* of the reported tree, parents before children and siblings in order,    *)
(* joined with "; ", the propertyPath being the property names of the      *)
(* node's ancestors and its own joined with ".".                           *)
(***************************************************************************)
\* the nodes of a forest, parents first, each with the names down to it
RECURSIVE Preorder(_, _)
Preorder(errors, ancestors) ==
    IF Len(errors) = 0 THEN <<>>
    ELSE LET names == Append(ancestors, Head(errors).property)
         IN  <<[names |-> names, node |-> Head(errors)]>>
             \o Preorder(Head(errors).children, names)
             \o Preorder(Tail(errors), ancestors)

ConstraintText(node) ==
    IF Len(node.constraints) = 0 THEN <<>>
    ELSE IF Len(node.constraints) = 1 THEN node.constraints[1]
    ELSE node.constraints[1] \o <<", ">> \o node.constraints[2]

Violations(c) ==
    Structured(c) /\ calls[c].validated = "fulfilled" /\ Len(calls[c].errors) > 0

ValidationError(segments) ==
    Throw(BadRequestException(join(segments, <<"; ">>), "violations"))

C10_SegmentPerNode ==
    \A c \in DOMAIN calls :
        Violations(c) =>
            LET nodes == Preorder(calls[c].errors, <<>>)
            IN  calls[c].result =
                  ValidationError([i \in 1..Len(nodes) |->
                      join(nodes[i].names, <<".">>)
                          \o <<": ">> \o ConstraintText(nodes[i].node)])

(***************************************************************************)
(* C10, amended.  When validate reports violations, the message thrown has *)
(* one segment "<propertyPath>: <constraint messages>" for every node of   *)
(* the reported tree that has a constraints object, and none for a node    *)
(* without one; parents before children and siblings in order, joined with *)
(* "; ".  The propertyPath is the property names of the node's ancestors   *)
(* and its own joined with ".", the names being non-empty.                 *)
(***************************************************************************)
C10_SegmentPerConstrainedNode ==
    \A c \in DOMAIN calls :
        Violations(c) =>
            LET nodes == SelectSeq(Preorder(calls[c].errors, <<>>),
                                   LAMBDA n : n.node.hasConstraints)
            IN  calls[c].result =
                  ValidationError([i \in 1..Len(nodes) |->
                      join(nodes[i].names, <<".">>)
                          \o <<": ">> \o ConstraintText(nodes[i].node)])

\* three levels reported, the top and the bottom with constraints
C10_Witness ==
    \E c \in DOMAIN calls :
        /\ Violations(c)
        /\ Len(calls[c].errors) = 1
        /\ calls[c].errors[1].hasConstraints
        /\ Len(calls[c].errors[1].children) = 2
        /\ Len(calls[c].errors[1].children[1].children) = 1
        /\ calls[c].errors[1].children[1].children[1].hasConstraints
        /\ calls[c].result.type = "throw"
        /\ calls[c].result.error.site = "violations"

(***************************************************************************)
(* C11.  In the class pipe, with a class as metatype and a resolved        *)
(* argument that is not null or undefined, the call returns exactly when   *)
(* validate resolved with no errors, and it then returns the object that   *)
(* plainToInstance returned: for an object argument an instance, not the   *)
(* argument.  When validate resolved with one error or more the call       *)
(* throws the exception made of them and returns no value.                 *)
(***************************************************************************)
\* a finished call of the class pipe that went past the two early returns
Validating(c) ==
    Structured(c) /\ Target(c) = "Dto" /\ ~Nullish(calls[c].resolvedValue)

C11_ReturnsInstanceIffNoViolations ==
    \A c \in DOMAIN calls :
        Validating(c) =>
            LET call == calls[c]
            IN  /\ call.result.type = "return"
                     <=> (call.validated = "fulfilled" /\ Len(call.errors) = 0)
                /\ call.result.type = "return" =>
                     /\ call.result = Return(call.object)
                     /\ call.plainToInstanceCalls = 1
                     /\ call.resolvedValue.kind = "object" =>
                          /\ call.result.value # call.resolvedValue
                          /\ call.result.value.shape \in {"instance", "instanceExtra"}
                /\ call.validated = "fulfilled" /\ Len(call.errors) > 0 =>
                     /\ call.result.type = "throw"
                     /\ call.result.error.cls = "BadRequestException"
                     /\ call.result.error.site = "violations"
                     /\ call.result.value = undefined

\* a plain object came back as an instance, validate having found no error
C11_Witness ==
    \E c \in DOMAIN calls :
        /\ Validating(c)
        /\ calls[c].resolvedValue = Obj("plain")
        /\ calls[c].validated = "fulfilled" /\ Len(calls[c].errors) = 0
        /\ calls[c].result = Return(Obj("instance"))

(***************************************************************************)
(* C12.  As claimed: a BadRequestException is thrown on by every step as   *)
(* it is, same exception and same message: one thrown by transformValue    *)
(* in the primitive pipe, one thrown by plainToInstance or validate or     *)
(* made of validate's errors in the class pipe, and one that a Promise     *)
(* argument is rejected with.                                              *)
(***************************************************************************)
\* what transformValue did in a finished call of the primitive pipe that
\* reached it
Coercion(c) ==
    transformValue(options, calls[c].resolvedValue, calls[c].metadata.metatype)

ReachedCoercion(c) ==
    Primitive(c) /\ ~Nullish(calls[c].resolvedValue) /\ Target(c) # "undefined"

Classified(error) == error.cls = "BadRequestException"

\* the steps inside the try blocks
RethrownInsideTry(c) ==
    /\ ReachedCoercion(c) /\ Coercion(c).type = "throw" /\ Classified(Coercion(c).error)
         => calls[c].result = Coercion(c)
    /\ Structured(c) /\ Classified(calls[c].thrown)
         => calls[c].result = Throw(calls[c].thrown)
    /\ Structured(c) /\ calls[c].validated = "fulfilled" /\ Len(calls[c].errors) > 0
         => /\ calls[c].result.type = "throw"
            /\ calls[c].result.error.site = "violations"
            /\ calls[c].result.error.message =
                 join(buildErrorMessages(calls[c].errors, undefined), <<"; ">>)

C12_ClassifiedRethrownEverywhere ==
    \A c \in DOMAIN calls :
        Finished(c) =>
            /\ RethrownInsideTry(c)
            /\ calls[c].settled = "rejected" /\ Classified(calls[c].reason)
                 => calls[c].result = Throw(calls[c].reason)

(***************************************************************************)
(* C12, amended.  A BadRequestException thrown inside a try block is       *)
(* thrown on as it is, never wrapped again: one thrown by transformValue   *)
(* in the primitive pipe, one thrown by plainToInstance or validate or     *)
(* made of validate's errors in the class pipe.  The await of a Promise    *)
(* argument is the exception: whatever the Promise is rejected with, a     *)
(* BadRequestException too, is dropped and the call throws a new           *)
(* BadRequestException("Invalid request data").                            *)
(***************************************************************************)
C12_ClassifiedRethrownInsideTry ==
    \A c \in DOMAIN calls :
        Finished(c) =>
            /\ RethrownInsideTry(c)
            /\ calls[c].settled = "rejected"
                 => /\ calls[c].result = Throw(InvalidRequestData)
                    /\ calls[c].result.error # calls[c].reason

\* validate was rejected with a BadRequestException and the call threw it
C12_Witness ==
    \E c \in DOMAIN calls :
        /\ Structured(c) /\ calls[c].validated = "rejected"
        /\ Classified(calls[c].thrown)
        /\ calls[c].result = Throw(calls[c].thrown)
        /\ calls[c].result.error.message = <<"Custom rule rejected the value">>

(***************************************************************************)
(* C13.  As claimed: an error that is no BadRequestException, thrown       *)
(* inside the try block of either pipe, is wrapped into a                  *)
(* BadRequestException whose message includes metadata.type: "Failed to    *)
(* validate <type>: <message of the error>" in the primitive pipe, and a   *)
(* message with <type> in it in the class pipe as well.                    *)
(***************************************************************************)
Unclassified(error) == error.cls \notin {"none", "BadRequestException"}

\* the parts of text are found in message, side by side
Includes(message, text) ==
    \E i \in 1..Len(message) :
        /\ i + Len(text) - 1 <= Len(message)
        /\ SubSeq(message, i, i + Len(text) - 1) = text

PrimitiveWrapped(c) ==
    ReachedCoercion(c) /\ Coercion(c).type = "throw" /\ Unclassified(Coercion(c).error)
        => /\ calls[c].result =
                Throw(BadRequestException(
                    <<"Failed to validate ">> \o calls[c].metadata.type \o <<": ">>
                        \o Coercion(c).error.message, "wrap"))
           /\ Includes(calls[c].result.error.message, calls[c].metadata.type)

C13_WrappedWithLabel ==
    \A c \in DOMAIN calls :
        Finished(c) =>
            /\ PrimitiveWrapped(c)
            /\ Structured(c) /\ Unclassified(calls[c].thrown)
                 => /\ calls[c].result.type = "throw"
                    /\ Classified(calls[c].result.error)
                    /\ Includes(calls[c].result.error.message, calls[c].metadata.type)

(***************************************************************************)
(* C13, amended.  An error that is no BadRequestException, thrown inside   *)
(* the try block of either pipe, is wrapped into a BadRequestException.    *)
(* In the primitive pipe its message is "Failed to validate <type>:        *)
(* <message of the error>", metadata.type included.  In the class pipe its *)
(* message is "Validation failed" and nothing else: metadata.type is not   *)
(* in it.                                                                  *)
(***************************************************************************)
C13_WrappedLabelInPrimitiveOnly ==
    \A c \in DOMAIN calls :
        Finished(c) =>
            /\ PrimitiveWrapped(c)
            /\ Structured(c) /\ Unclassified(calls[c].thrown)
                 => /\ calls[c].result =
                         Throw(BadRequestException(<<"Validation failed">>, "generic"))
                    /\ ~Includes(calls[c].result.error.message, calls[c].metadata.type)

\* a TypeError of String() wrapped with the label "body" in the primitive
\* pipe
C13_Witness ==
    \E c \in DOMAIN calls :
        /\ ReachedCoercion(c) /\ Unclassified(Coercion(c).error)
        /\ calls[c].metadata.type = <<"body">>
        /\ calls[c].result.type = "throw"
        /\ calls[c].result.error.message =
             <<"Failed to validate ", "body", ": ",
               "Cannot convert object to primitive value">>

(***************************************************************************)
(* C14.  In the class pipe, when plainToInstance throws or validate is     *)
(* rejected with an error that is no BadRequestException, the call throws  *)
(* a BadRequestException whose message is "Validation failed" and nothing  *)
(* else, whatever the error: no part of the error's message is in it.      *)
(***************************************************************************)
C14_GenericValidationFailed ==
    \A c \in DOMAIN calls :
        Structured(c) /\ Unclassified(calls[c].thrown) =>
            /\ calls[c].result.type = "throw"
            /\ calls[c].result.error.cls = "BadRequestException"
            /\ calls[c].result.error.message = <<"Validation failed">>
            /\ \A i \in 1..Len(calls[c].thrown.message) :
                 ~Includes(calls[c].result.error.message,
                           <<calls[c].thrown.message[i]>>)
            /\ calls[c].result.value = undefined

\* plainToInstance threw a TypeError: validate was not called and the call
\* threw "Validation failed"
C14_Witness ==
    \E c \in DOMAIN calls :
        /\ Structured(c) /\ calls[c].thrown.cls = "TypeError"
        /\ calls[c].validateCalls = 0
        /\ calls[c].result.type = "throw"
        /\ calls[c].result.error.message = <<"Validation failed">>

(***************************************************************************)
(* C15.  The options of an instance are those it was constructed with:     *)
(* with two calls of transform in flight on one instance, in every         *)
(* interleaving of their steps, and whatever the code that built the pipe  *)
(* assigns afterwards to the objects it passed, every call reads the       *)
(* options the constructor set, and ends as the same call does when it     *)
(* runs alone on the pipe as constructed.                                  *)
(***************************************************************************)
\* the fields of the instance when its constructor returned
Constructed ==
    [options |-> PrimitiveValidationPipe(args),
     validatorOptions |-> ValidatorOptions(args.validatorOptions),
     transformOptions |-> TransformOptions(args.transformOptions)]

\* a finished call of the class pipe read the constructed options and ended
\* as its own arguments and what its awaits gave make it end
StructuredAlone(c) ==
    LET call == calls[c]
    IN  /\ call.plainToInstanceCalls > 0
             => call.transformWith = Constructed.transformOptions
        /\ call.validateCalls > 0
             => call.validateWith = Constructed.validatorOptions
        /\ call.result =
             IF call.settled = "rejected" THEN Throw(InvalidRequestData)
             ELSE IF StructuredSkips(call.resolvedValue, call.metadata)
                  THEN Return(call.resolvedValue)
             ELSE IF call.thrown # NoError THEN StructuredCatch(Throw(call.thrown))
             ELSE StructuredValidated(
                      Whitelisted(call.instance, Constructed.validatorOptions),
                      call.errors)

\* a finished call of the primitive pipe ended as under the constructed
\* options
PrimitiveAlone(c) ==
    calls[c].result =
        IF calls[c].settled = "rejected" THEN Throw(InvalidRequestData)
        ELSE PrimitiveResolved(Constructed.options, calls[c].resolvedValue,
                               calls[c].metadata)

StructuredPolicyFixed ==
    \A c \in DOMAIN calls :
        Finished(c) /\ stage = "structured" => StructuredAlone(c)

C15_PolicyFixedAtConstruction ==
    \A c \in DOMAIN calls :
        Finished(c) =>
            /\ stage = "primitive" => PrimitiveAlone(c)
            /\ stage = "structured" => StructuredAlone(c)

(***************************************************************************)
(* C16.  The class pipe calls validate with whitelist "true" and           *)
(* forbidNonWhitelisted "false", and plainToInstance with                  *)
(* enableImplicitConversion "true", except for the keys the objects given  *)
(* to the constructor name, which are passed as given.  So with no options *)
(* given, an object with a property the class does not declare, the rules  *)
(* finding no fault, returns an instance without that property; and with   *)
(* forbidNonWhitelisted given as true (whitelist left on) the same object  *)
(* makes the call throw the exception made of validate's errors.           *)
(***************************************************************************)
GivenOr(given, key, default) == IF given[key] = "absent" THEN default ELSE given[key]

\* a finished call that gave validate an instance with an undeclared
\* property, validate having resolved
ExtraValidated(c) ==
    /\ Validating(c) /\ calls[c].resolvedValue = Obj("extra")
    /\ calls[c].validated = "fulfilled"

C16_DefaultsUnlessGiven ==
    \A c \in DOMAIN calls :
        Validating(c) =>
            /\ calls[c].plainToInstanceCalls = 1
            /\ calls[c].transformWith["enableImplicitConversion"]
                 = GivenOr(args.transformOptions, "enableImplicitConversion", "true")
            /\ calls[c].validateCalls = 1 =>
                 /\ calls[c].validateWith["whitelist"]
                      = GivenOr(args.validatorOptions, "whitelist", "true")
                 /\ calls[c].validateWith["forbidNonWhitelisted"]
                      = GivenOr(args.validatorOptions, "forbidNonWhitelisted", "false")
            /\ /\ ExtraValidated(c)
               /\ args.validatorOptions = AbsentAll(ValidatorKeys)
               => /\ WhitelistViolation \notin Range(calls[c].errors)
                  /\ Len(calls[c].errors) = 0 => calls[c].result = Return(Obj("instance"))
            /\ /\ ExtraValidated(c)
               /\ args.validatorOptions["forbidNonWhitelisted"] = "true"
               /\ args.validatorOptions["whitelist"] # "false"
               => /\ calls[c].result.type = "throw"
                  /\ calls[c].result.error.site = "violations"
                  /\ Includes(calls[c].result.error.message,
                              <<"extra", ": ", "property extra should not exist">>)

\* with forbidNonWhitelisted given and nothing else, the object with the
\* undeclared property was refused for that property alone
C16_Witness ==
    \E c \in DOMAIN calls :
        /\ ExtraValidated(c)
        /\ args.validatorOptions["forbidNonWhitelisted"] = "true"
        /\ args.validatorOptions["whitelist"] = "absent"
        /\ calls[c].validateWith["whitelist"] = "true"
        /\ calls[c].result =
             Throw(BadRequestException(
                 <<"extra", ": ", "property extra should not exist">>, "violations"))

(***************************************************************************)
(* C17.  In the primitive pipe, with metatype String, Number or Boolean    *)
(* and the switch of that metatype on, a call whose resolved argument is   *)
(* not null or undefined returns, when it returns, a value whose typeof is *)
(* that of the metatype: "string", "number" or "boolean".  An argument of  *)
(* a typeof the branch has no conversion for (an object or a boolean for   *)
(* Number, an object for Boolean) makes the call throw "Cannot convert     *)
(* <typeof> to a number" or "... to a boolean" and is never returned.      *)
(***************************************************************************)
TypeofTarget(metatype) ==
    CASE metatype = "String"  -> "string"
      [] metatype = "Number"  -> "number"
      [] metatype = "Boolean" -> "boolean"

\* the typeofs a branch of transformValue converts from
Convertible(metatype) ==
    CASE metatype = "Number"  -> {"number", "string"}
      [] metatype = "Boolean" -> {"boolean", "string", "number"}

C17_ResultOfTargetKind ==
    \A c \in DOMAIN calls :
        /\ Primitive(c) /\ ~Nullish(calls[c].resolvedValue)
        /\ Target(c) \in {"String", "Number", "Boolean"}
        /\ Enabled(options, KeyOf(Target(c)))
        => LET value == calls[c].resolvedValue
               word  == IF Target(c) = "Number" THEN " to a number" ELSE " to a boolean"
           IN  /\ calls[c].result.type = "return"
                    => typeof(calls[c].result.value) = TypeofTarget(Target(c))
               /\ typeof(value) # TypeofTarget(Target(c))
                    => calls[c].result # Return(value)
               /\ Target(c) # "String" /\ typeof(value) \notin Convertible(Target(c))
                    => calls[c].result =
                         ConversionError(<<"Cannot convert ", typeof(value), word>>)

\* an object under metatype Number: "Cannot convert object to a number"
C17_Witness ==
    \E c \in DOMAIN calls :
        /\ Coercing(c, "Number", "transformNumber")
        /\ calls[c].resolvedValue = Obj("plain")
        /\ calls[c].result =
             ConversionError(<<"Cannot convert ", "object", " to a number">>)

(***************************************************************************)
(* C18.  With transformString on and metatype String, the primitive pipe   *)
(* returns the string form of every value, null and undefined too: null    *)
(* returns the text "null" and undefined the text "undefined".             *)
(***************************************************************************)
C18_NullishToText ==
    \A c \in DOMAIN calls :
        Coercing(c, "String", "transformString") =>
            /\ calls[c].resolvedValue = null
                 => calls[c].result = Return(Str(<<"n", "u", "l", "l">>))
            /\ calls[c].resolvedValue = undefined
                 => calls[c].result =
                      Return(Str(<<"u", "n", "d", "e", "f", "i", "n", "e", "d">>))

(***************************************************************************)
(* C19.  As claimed: in either pipe a call of transform suspends at most   *)
(* once, at the await of a Promise argument, and once its argument is      *)
(* resolved it runs to its return or throw with no suspension, so that no  *)
(* step of another call comes between: in the class pipe too, its          *)
(* plainToInstance and validate included.                                  *)
(***************************************************************************)
\* the argument of the call is resolved and the call has not ended
ResolvedNotEnded(c) == calls[c].pc \notin {"idle", "awaitInput", "done"}

OthersStand(c) == \A d \in DOMAIN calls \ {c} : calls'[d] = calls[d]

C19_SuspendsOnlyForInput ==
    /\ [](\A c \in DOMAIN calls : calls[c].suspensions <= 1)
    /\ [][\A c \in DOMAIN calls : ResolvedNotEnded(c) => OthersStand(c)]_vars

(***************************************************************************)
(* C19, amended.  In the primitive pipe a call of transform suspends at    *)
(* most once, at the await of a Promise argument, and is never found with  *)
(* its argument resolved and its end not reached.  In the class pipe a     *)
(* call that reaches validate suspends once more, at the await of          *)
(* validate: it suspends at most twice, once for a Promise argument and    *)
(* once for each call of validate; from the resolved argument to the call  *)
(* of validate, plainToInstance included, and from validate's settling to  *)
(* the end it does not suspend, and it is found with its argument resolved *)
(* and its end not reached only while validate is pending.                 *)
(***************************************************************************)
InputSuspensions(c) == IF calls[c].promise THEN 1 ELSE 0

C19_SuspendsForInputAndValidate ==
    \A c \in DOMAIN calls :
        /\ stage = "primitive" =>
             /\ calls[c].suspensions = InputSuspensions(c)
             /\ ~ResolvedNotEnded(c)
        /\ stage = "structured" =>
             /\ calls[c].suspensions = InputSuspensions(c) + calls[c].validateCalls
             /\ calls[c].suspensions <= 2
             /\ ResolvedNotEnded(c) =>
                  /\ calls[c].pc = "awaitValidate"
                  /\ calls[c].plainToInstanceCalls = 1 /\ calls[c].validateCalls = 1
                  /\ calls[c].validated = "none"

\* two calls of the class pipe, both with their argument resolved and both
\* waiting for validate, one of them suspended for the second time
C19_Witness ==
    \E c \in DOMAIN calls, d \in DOMAIN calls :
        /\ c # d /\ stage = "structured"
        /\ calls[c].pc = "awaitValidate" /\ calls[d].pc = "awaitValidate"
        /\ calls[c].suspensions = 2

(***************************************************************************)
(* C20.  In one call of the class pipe's transform, plainToInstance is     *)
(* called at most once and validate at most once; validate is called only  *)
(* after plainToInstance has returned, and with the object it returned;    *)
(* neither is called when the call ends early (a rejected Promise          *)
(* argument, null or undefined, no metatype, a built-in metatype);         *)
(* validate is not called when plainToInstance threw; and nothing is       *)
(* called again after a throw or a rejection.                              *)
(***************************************************************************)
\* the call ended at one of the early returns or at the rejected argument
EndedEarly(c) ==
    /\ Finished(c)
    /\ \/ calls[c].settled = "rejected"
       \/ Nullish(calls[c].resolvedValue)
       \/ Target(c) \in {"undefined", "String", "Number", "Boolean", "Array", "Object"}

C20_CapabilitiesOnceInOrder ==
    \A c \in DOMAIN calls :
        stage = "structured" =>
            LET call == calls[c]
            IN  /\ call.plainToInstanceCalls <= 1 /\ call.validateCalls <= 1
                /\ call.validateCalls = 1 =>
                     /\ call.plainToInstanceCalls = 1
                     /\ call.instance \in PlainToInstanceReturns(call.resolvedValue)
                     /\ call.validateArg = call.instance
                /\ EndedEarly(c) =>
                     call.plainToInstanceCalls = 0 /\ call.validateCalls = 0
                /\ call.pc \in {"idle", "awaitInput"} =>
                     call.plainToInstanceCalls = 0 /\ call.validateCalls = 0
                /\ Finished(c) /\ call.thrown # NoError /\ call.validated = "none" =>
                     call.plainToInstanceCalls = 1 /\ call.validateCalls = 0
                /\ Finished(c) /\ call.validated = "rejected" =>
                     call.plainToInstanceCalls = 1 /\ call.validateCalls = 1
                /\ Finished(c) /\ ~EndedEarly(c) => call.plainToInstanceCalls = 1

\* plainToInstance threw: it was called once, validate not at all, and the
\* call ended with that one attempt
C20_Witness ==
    \E c \in DOMAIN calls :
        /\ Structured(c) /\ Target(c) = "Dto"
        /\ calls[c].thrown # NoError /\ calls[c].validated = "none"
        /\ calls[c].plainToInstanceCalls = 1 /\ calls[c].validateCalls = 0
        /\ calls[c].result.type = "throw"

(***************************************************************************)
(* C21.  With every awaited Promise settling, a call of transform of       *)
(* either pipe that waits for its Promise argument or for validate comes   *)
(* to its end.  It ends in one way: with a returned value, or with a       *)
(* thrown BadRequestException and no value, never with an error of         *)
(* another class; the end, once reached, stands until the caller takes     *)
(* it; and a call in which something was thrown (a rejected argument, a    *)
(* throw of transformValue, plainToInstance or validate, errors reported   *)
(* by validate) ends with a throw, never with a returned value.            *)
(***************************************************************************)
Waiting(c) == calls[c].pc \in {"awaitInput", "awaitValidate"}

\* something was thrown or reported in the finished call
Failed(c) ==
    \/ calls[c].settled = "rejected"
    \/ calls[c].thrown # NoError
    \/ Len(calls[c].errors) > 0

OneOutcome(c) ==
    /\ calls[c].result.type \in {"return", "throw"}
    /\ calls[c].result.type = "return" => calls[c].result.error = NoError
    /\ calls[c].result.type = "throw" =>
         /\ calls[c].result.value = undefined
         /\ calls[c].result.error.cls = "BadRequestException"
    /\ Failed(c) => calls[c].result.type = "throw"

EndStands(c) == Finished(c) /\ calls'[c].pc = "done" => calls'[c] = calls[c]

C21_EndsInOneOutcome ==
    /\ [](\A c \in DOMAIN calls : Finished(c) => OneOutcome(c))
    /\ [](\A c \in DOMAIN calls : ~Finished(c) => calls[c].result = Pending)
    /\ [][\A c \in DOMAIN calls : EndStands(c)]_vars
    /\ \A c \in TwoCalls : Waiting(c) ~> Finished(c)

\* a call of the class pipe that waited for its argument and for validate
\* ended with the exception made of validate's errors
C21_Witness ==
    \E c \in DOMAIN calls :
        /\ Structured(c) /\ calls[c].promise /\ calls[c].suspensions = 2
        /\ Len(calls[c].errors) > 0
        /\ calls[c].result.type = "throw"
        /\ calls[c].result.error.site = "violations"

(***************************************************************************)
(* C22.  The primitive pipe run on its own result gives that result: for   *)
(* every argument, metatype and options, when transform returns r, a       *)
(* second transform of r under the same metadata and options returns r     *)
(* too, and does not throw.                                                *)
(***************************************************************************)
\* a finished second run
RanTwice(c) == stage = "primitive" /\ Finished(c) /\ calls[c].pass = 2

C22_SecondRunReturnsFirstResult ==
    \A c \in DOMAIN calls :
        RanTwice(c) =>
            /\ calls[c].previous.type = "return"
            /\ calls[c].value = calls[c].previous.value
            /\ calls[c].result = calls[c].previous

\* the first run made the number 42 of a text, the second run was given
\* the number and returned it
C22_Witness ==
    \E c \in DOMAIN calls :
        /\ RanTwice(c) /\ Target(c) = "Number" /\ Enabled(options, "transformNumber")
        /\ calls[c].value = Num(Int2Num(42))
        /\ calls[c].result = Return(Num(Int2Num(42)))

====
